---- MODULE Spec2Model ----
(***************************************************************************)
(* Model of gtdb_species_clusters/update_erroneous_ncbi.py                 *)
(* (class UpdateErroneousNCBI): the two detectors of genomes with          *)
(* erroneous NCBI species assignments and the run() that calls them.       *)
(*                                                                         *)
(* Genome IDs are the positions 1..NumGenomes of the genome set in its own *)
(* enumeration order ("for gid in cur_genomes"); the code only compares    *)
(* IDs for equality, so every input is a renaming of one of these.         *)
(* A species name is the sequence of its words: <<"s__">> is the           *)
(* unassigned label, <<"s__Foo", "bar">> is 's__Foo bar'.                  *)
(* cur_clusters is the dict representative -> member set; the order in     *)
(* which a dict's items are visited is chosen step by step.                *)
(***************************************************************************)
EXTENDS Integers, Sequences, FiniteSets, TLC

\* bound: number of genomes in cur_genomes
NumGenomes == 3

Gids == 1..NumGenomes

NoSpecies == <<"s__">>

SpeciesNames ==
    { NoSpecies,
      <<"s__Foo", "bar">>,
      <<"s__Baz", "qux">>,
      <<"s__Foo", "cyanobacterium">> }

\* self.ani_ncbi_erroneous, the configured threshold
ani_ncbi_erroneous == 95

\* (ANI, AF) values the similarity oracle may report: below, at and above
\* the threshold
AniValues ==
    { <<ani_ncbi_erroneous - 1, 70>>,
      <<ani_ncbi_erroneous, 80>>,
      <<ani_ncbi_erroneous + 1, 90>> }

forbidden_names == {"cyanobacterium"}

\* taxon_utils.specific_epithet: the second word of the binomial, empty for
\* a label without one
specific_epithet(species_name) ==
    IF Len(species_name) >= 2 THEN species_name[2] ELSE ""

Range(s) == { s[k] : k \in 1..Len(s) }

EmptyMap == [x \in {} |-> 0]

MapPut(m, k, v) == [x \in (DOMAIN m) \cup {k} |-> IF x = k THEN v ELSE m[x]]

----------------------------------------------------------------------------
(* Inputs *)

GenomeRecords == [ncbi_species : SpeciesNames, type_strain : BOOLEAN]

\* Genome.is_effective_type_strain()
is_effective_type_strain(genomes, gid) == genomes[gid].type_strain

\* type_genome_utils.read_clusters: a dict representative -> members built
\* from a partition of the genomes (rep_of maps each genome to the
\* representative of its cluster).  The member set either leaves the
\* representative out (spec 4.1, and the "+ 1" of run) or lists it.
read_clusters(rep_of, rep_listed) ==
    [rid \in { rep_of[g] : g \in Gids } |->
        { g \in Gids : rep_of[g] = rid /\ (rep_listed \/ g # rid) }]

ClusterInputs ==
    { read_clusters(rep_of, rep_listed) :
        rep_of \in { f \in [Gids -> Gids] : \A g \in Gids : f[f[g]] = f[g] },
        rep_listed \in BOOLEAN }

----------------------------------------------------------------------------
(* Steps shared by both detectors *)

\* gid_to_rid: the inverse of the clustering, built from the member sets only
GidToRid(clusters) ==
    [cid \in UNION { clusters[rid] : rid \in DOMAIN clusters } |->
        CHOOSE rid \in DOMAIN clusters : cid \in clusters[rid]]

\* ncbi_sp_gids[ncbi_species].append(gid) on an insertion-ordered dict
AppendToGroup(groups, species, gid) ==
    IF \E k \in 1..Len(groups) : groups[k].species = species
    THEN [k \in 1..Len(groups) |->
            IF groups[k].species = species
            THEN [groups[k] EXCEPT !.gids = Append(@, gid)]
            ELSE groups[k]]
    ELSE Append(groups, [species |-> species, gids |-> <<gid>>])

\* whether a genome joins the group of its NCBI species
HasCandidateName(ncbi_species) ==
    /\ ncbi_species # NoSpecies
    /\ specific_epithet(ncbi_species) \notin forbidden_names

RECURSIVE NcbiSpGidsFrom(_, _, _)
NcbiSpGidsFrom(genomes, gid, groups) ==
    IF gid > Len(genomes) THEN groups
    ELSE NcbiSpGidsFrom(genomes, gid + 1,
            IF HasCandidateName(genomes[gid].ncbi_species)
            THEN AppendToGroup(groups, genomes[gid].ncbi_species, gid)
            ELSE groups)

\* genomes with an NCBI species assignment, grouped by species
NcbiSpGids(genomes) == NcbiSpGidsFrom(genomes, 1, <<>>)

\* the value the loop variable ncbi_species holds after the grouping loop
LastNcbiSpecies(genomes) == genomes[Len(genomes)].ncbi_species

----------------------------------------------------------------------------
(* The similarity oracle (FastANI.pairs) and the lookup of its result *)

\* variant: only the ordering (type_rid, gid) is requested
GidPairsOneWay(rid, gids) == [k \in 1..Len(gids) |-> <<rid, gids[k]>>]

\* gid_pairs: (type_rid, gid) and (gid, type_rid) for each genome to check
GidPairs(rid, gids) ==
    [k \in 1..(2 * Len(gids)) |->
        IF k % 2 = 1 THEN <<rid, gids[(k + 1) \div 2]>>
                     ELSE <<gids[k \div 2], rid>>]

\* FastANI.pairs: every result the oracle may hand back for a batch.  A pair
\* may be omitted; a similarity record has one value whichever orientation
\* it is stored under.
FastANIResults(gid_pairs) ==
    { [p \in stored |-> val[{p[1], p[2]}]] :
        stored \in SUBSET Range(gid_pairs),
        val \in [{ {p[1], p[2]} : p \in Range(gid_pairs) } -> AniValues] }

\* type_genome_utils.symmetric_ani: probes both orderings of the pair; with
\* neither stored the lookup raises
symmetric_ani(ani_af_map, gid1, gid2) ==
    IF <<gid1, gid2>> \in DOMAIN ani_af_map
    THEN [found |-> TRUE, ani |-> ani_af_map[<<gid1, gid2>>][1],
          af |-> ani_af_map[<<gid1, gid2>>][2]]
    ELSE IF <<gid2, gid1>> \in DOMAIN ani_af_map
    THEN [found |-> TRUE, ani |-> ani_af_map[<<gid2, gid1>>][1],
          af |-> ani_af_map[<<gid2, gid1>>][2]]
    ELSE [found |-> FALSE, ani |-> 0, af |-> 0]

----------------------------------------------------------------------------
(* Steps of identify_misclassified_genomes_ani *)

\* one iteration of the anchor loop: only the representative is examined
AniAnchorCluster(genomes, anchored, rid) ==
    IF /\ is_effective_type_strain(genomes, rid)
       /\ genomes[rid].ncbi_species # NoSpecies
    THEN MapPut(anchored, genomes[rid].ncbi_species, rid)
    ELSE anchored

\* the genomes of a species group that sit in a cluster other than the
\* anchor's; every gid of the group is looked up in gid_to_rid
GidsToCheck(index, rid, species_gids) ==
    LET Elsewhere(gid) == index[gid] # rid
    IN  SelectSeq(species_gids, Elsewhere)

\* gids_to_check when gid_to_rid[gid] raises: the candidates among the
\* genomes of the group that precede the first one absent from gid_to_rid
GidsToCheckBeforeKeyError(index, rid, species_gids) ==
    LET missing == { k \in 1..Len(species_gids) : species_gids[k] \notin DOMAIN index }
        first == CHOOSE k \in missing : \A j \in missing : k <= j
    IN  GidsToCheck(index, rid, SubSeq(species_gids, 1, first - 1))

\* variant: the threshold itself counts as erroneous
IsErroneousAniOrEqual(ani) == ani <= ani_ncbi_erroneous

\* ani < self.ani_ncbi_erroneous
IsErroneousAni(ani) == ani < ani_ncbi_erroneous

\* the classification loop over gids_to_check, from position k on
RECURSIVE AniClassifyFrom(_, _, _, _, _, _, _)
AniClassifyFrom(k, gids, af_map, rid, species, index, acc) ==
    IF k > Len(gids) THEN acc
    ELSE LET gid == gids[k]
             sim == symmetric_ani(af_map, rid, gid)
         IN  IF ~sim.found
             THEN [acc EXCEPT !.raised = TRUE]
             ELSE AniClassifyFrom(k + 1, gids, af_map, rid, species, index,
                    IF IsErroneousAni(sim.ani)
                    THEN [acc EXCEPT
                            !.misclassified = @ \cup {gid},
                            !.rows = Append(@, <<gid, species, index[gid],
                                                 rid, sim.ani, sim.af>>)]
                    ELSE acc)

----------------------------------------------------------------------------
(* Steps of identify_misclassified_genomes_cluster *)

\* one iteration of the anchor loop: every listed member is examined; the
\* forbidden-name test reads ncbi_species, the variable left over from the
\* grouping loop
ClusterAnchorNames(genomes, leftover_species, cids) ==
    { genomes[cid].ncbi_species : cid \in
        { c \in cids :
            /\ is_effective_type_strain(genomes, c)
            /\ genomes[c].ncbi_species # NoSpecies
            /\ specific_epithet(leftover_species) \notin forbidden_names } }

ClusterAnchorConflict(anchored, rid, names) ==
    \E species \in names :
        species \in DOMAIN anchored /\ rid # anchored[species]

\* the names of the cluster that line 189 finds anchored elsewhere
ClusterAnchorConflicting(anchored, rid, names) ==
    { species \in names : species \in DOMAIN anchored /\ rid # anchored[species] }

ClusterAnchorCluster(anchored, rid, names) ==
    [species \in (DOMAIN anchored) \cup names |->
        IF species \in names THEN rid ELSE anchored[species]]

\* the loop over one species group: every genome in another cluster than the
\* anchor's is misclassified
RECURSIVE ClusterClassifyFrom(_, _, _, _, _, _)
ClusterClassifyFrom(k, gids, rid, species, index, acc) ==
    IF k > Len(gids) THEN acc
    ELSE LET gid == gids[k]
         IN  IF gid \notin DOMAIN index
             THEN [acc EXCEPT !.raised = TRUE]
             ELSE ClusterClassifyFrom(k + 1, gids, rid, species, index,
                    IF rid # index[gid]
                    THEN [acc EXCEPT
                            !.misclassified = @ \cup {gid},
                            !.rows = Append(@, <<gid, species, index[gid], rid>>)]
                    ELSE acc)

----------------------------------------------------------------------------
(* State *)

VARIABLES
    cur_genomes,        \* sequence of genome records, in enumeration order
    cur_clusters,       \* dict representative -> member set
    mode,               \* which operation was invoked: run, ani or cluster
    method,             \* the detector being executed: none, ani or cluster
    pc,                 \* position in the code
    error,              \* "" or the exception that ended the process
    gid_to_rid,         \* local: genome -> representative
    ncbi_sp_gids,       \* local: species groups, in insertion order
    ncbi_species,       \* local: the name ncbi_species, bound by the grouping
                        \* loop and rebound by the species loop
    ncbi_type_anchored_species,  \* local: species -> anchor representative
    todo,               \* clusters the anchor loop has still to visit
    idx,                \* position of the species loop in ncbi_sp_gids
    type_rid,           \* local: anchor of the species being processed
    gids_to_check,      \* local: candidate mismatches of that species
    ani_af,             \* local: result of the last oracle batch
    misclassified_gids, \* local: genomes flagged so far
    ani_report,         \* ncbi_misclassified_sp.ani_<threshold>.tsv
    cluster_report,     \* ncbi_misclassified_sp.gtdb_clustering.tsv
    ani_returned,       \* return value of identify_misclassified_genomes_ani
    cluster_returned,   \* return value of identify_misclassified_genomes_cluster
    fastani_calls       \* the batches handed to the oracle, in order

\* the state of the sibling tools modelled with the detectors
VARIABLES
    epithet1,           \* _test_same_epithet: first argument
    epithet2,           \* _test_same_epithet: second argument
    same_epithet,       \* _test_same_epithet: whether it returned, and what
    mc_taxonomy,        \* PMC_CheckTypeStrains: genome -> curated species
    pmc_genomes,        \* PMC_CheckTypeStrains: cur_genomes, genome -> record
    pmc_pc,             \* PMC_CheckTypeStrains: position in run
    pmc_todo,           \* PMC_CheckTypeStrains: items of mc_taxonomy not yet visited
    num_incongruent,    \* PMC_CheckTypeStrains: local counter
    fout,               \* type_strains_incongruencies.tsv
    pmc_logged,         \* PMC_CheckTypeStrains: the count logged at line 116
    prev_accns,         \* NewGenomes: canonical ID -> accession, previous release
    cur_accns,          \* NewGenomes: canonical ID -> accession, current release
    identical_accns,    \* NewGenomes: accession -> identical paired accession
    new_gids,           \* NewGenomes: local set
    updated_gids,       \* NewGenomes: local set
    ng_pc,              \* NewGenomes: position in run
    ng_todo             \* NewGenomes: keys of cur_accns not yet visited

detector_vars ==
    <<cur_genomes, cur_clusters, mode, method, pc, error, gid_to_rid,
      ncbi_sp_gids, ncbi_species, ncbi_type_anchored_species, todo, idx,
      type_rid, gids_to_check, ani_af, misclassified_gids, ani_report,
      cluster_report, ani_returned, cluster_returned, fastani_calls>>

epithet_vars == <<epithet1, epithet2, same_epithet>>

pmc_vars == <<mc_taxonomy, pmc_genomes, pmc_pc, pmc_todo, num_incongruent,
              fout, pmc_logged>>

new_genomes_vars == <<prev_accns, cur_accns, identical_accns, new_gids,
                      updated_gids, ng_pc, ng_todo>>

\* what the detectors never touch
other_tools == <<epithet_vars, pmc_vars, new_genomes_vars>>

vars == <<detector_vars, other_tools>>

inputs == <<cur_genomes, cur_clusters>>

NoFile == [opened |-> FALSE, header |-> FALSE, rows |-> <<>>, closed |-> FALSE]

NotReturned == [returned |-> FALSE, gids |-> {}]

\* _test_same_epithet has not returned
NotTested == [returned |-> FALSE, value |-> FALSE]

NotLogged == [logged |-> FALSE, count |-> 0]

\* the sibling tools before they are invoked
EpithetIdle ==
    /\ epithet1 = ""
    /\ epithet2 = ""
    /\ same_epithet = NotTested

PmcIdle ==
    /\ mc_taxonomy = EmptyMap
    /\ pmc_genomes = EmptyMap
    /\ pmc_pc = "idle"
    /\ pmc_todo = {}
    /\ num_incongruent = 0
    /\ fout = NoFile
    /\ pmc_logged = NotLogged

NewGenomesIdle ==
    /\ prev_accns = EmptyMap
    /\ cur_accns = EmptyMap
    /\ identical_accns = EmptyMap
    /\ new_gids = {}
    /\ updated_gids = {}
    /\ ng_pc = "idle"
    /\ ng_todo = {}

Init ==
    /\ cur_genomes \in [Gids -> GenomeRecords]
    /\ cur_clusters \in ClusterInputs
    /\ mode = "none"
    /\ method = "none"
    /\ pc = "idle"
    /\ error = ""
    /\ gid_to_rid = EmptyMap
    /\ ncbi_sp_gids = <<>>
    /\ ncbi_species = NoSpecies
    /\ ncbi_type_anchored_species = EmptyMap
    /\ todo = {}
    /\ idx = 0
    /\ type_rid = 0
    /\ gids_to_check = <<>>
    /\ ani_af = EmptyMap
    /\ misclassified_gids = {}
    /\ ani_report = NoFile
    /\ cluster_report = NoFile
    /\ ani_returned = NotReturned
    /\ cluster_returned = NotReturned
    /\ fastani_calls = <<>>
    /\ EpithetIdle
    /\ PmcIdle
    /\ NewGenomesIdle

\* the detectors before they are invoked, on an empty genome set of no
\* interest to the sibling tools
DetectorIdle ==
    /\ cur_genomes = [gid \in Gids |-> [ncbi_species |-> NoSpecies, type_strain |-> FALSE]]
    /\ cur_clusters = [rid \in Gids |-> {rid}]
    /\ mode = "none"
    /\ method = "none"
    /\ pc = "idle"
    /\ error = ""
    /\ gid_to_rid = EmptyMap
    /\ ncbi_sp_gids = <<>>
    /\ ncbi_species = NoSpecies
    /\ ncbi_type_anchored_species = EmptyMap
    /\ todo = {}
    /\ idx = 0
    /\ type_rid = 0
    /\ gids_to_check = <<>>
    /\ ani_af = EmptyMap
    /\ misclassified_gids = {}
    /\ ani_report = NoFile
    /\ cluster_report = NoFile
    /\ ani_returned = NotReturned
    /\ cluster_returned = NotReturned
    /\ fastani_calls = <<>>

\* the exceptions that can end the process, named by the lookup that raises
KeyErrorGidToRid == "KeyError: gid_to_rid[gid]"

LookupErrorAniAf == "lookup of a pair absent from ani_af"

\* the locals of a detector are gone once it has returned
LocalsDropped ==
    /\ method' = "none"
    /\ gid_to_rid' = EmptyMap
    /\ ncbi_sp_gids' = <<>>
    /\ ncbi_species' = NoSpecies
    /\ ncbi_type_anchored_species' = EmptyMap
    /\ todo' = {}
    /\ idx' = 0
    /\ type_rid' = 0
    /\ gids_to_check' = <<>>
    /\ ani_af' = EmptyMap
    /\ misclassified_gids' = {}

\* an uncaught exception ends the process
Raise(exception) ==
    /\ pc' = "crashed"
    /\ error' = exception

----------------------------------------------------------------------------
(* identify_misclassified_genomes_ani *)

\* lines 74-92: index, species groups, empty anchor map
AniEnter ==
    /\ gid_to_rid' = GidToRid(cur_clusters)
    /\ ncbi_sp_gids' = NcbiSpGids(cur_genomes)
    /\ ncbi_species' = LastNcbiSpecies(cur_genomes)
    /\ ncbi_type_anchored_species' = EmptyMap
    /\ todo' = DOMAIN cur_clusters
    /\ pc' = "ani_anchor"
    /\ method' = "ani"
    /\ UNCHANGED <<inputs, other_tools, error, idx, type_rid, gids_to_check, ani_af,
                   misclassified_gids, ani_report, cluster_report,
                   ani_returned, cluster_returned, fastani_calls>>

\* run(), lines 268-270
Run ==
    /\ pc = "idle"
    /\ mode' = "run"
    /\ AniEnter

\* the threshold method called on its own
CallAni ==
    /\ pc = "idle"
    /\ mode' = "ani"
    /\ AniEnter

\* lines 93-97, one cluster
AniAnchor ==
    /\ pc = "ani_anchor"
    /\ \E rid \in todo :
        /\ ncbi_type_anchored_species' =
              AniAnchorCluster(cur_genomes, ncbi_type_anchored_species, rid)
        /\ todo' = todo \ {rid}
    /\ UNCHANGED <<inputs, other_tools, mode, method, pc, error, gid_to_rid, ncbi_sp_gids,
                   ncbi_species, idx, type_rid, gids_to_check, ani_af,
                   misclassified_gids, ani_report, cluster_report,
                   ani_returned, cluster_returned, fastani_calls>>

\* lines 98-105: the report is opened and its header written
AniOpenReport ==
    /\ pc = "ani_anchor"
    /\ todo = {}
    /\ ani_report' = [opened |-> TRUE, header |-> TRUE, rows |-> <<>>,
                      closed |-> FALSE]
    /\ misclassified_gids' = {}
    /\ idx' = 1
    /\ pc' = "ani_species"
    /\ UNCHANGED <<inputs, other_tools, mode, method, error, gid_to_rid, ncbi_sp_gids,
                   ncbi_species, ncbi_type_anchored_species, todo, type_rid,
                   gids_to_check, ani_af, cluster_report, ani_returned,
                   cluster_returned, fastani_calls>>

\* lines 106-137: one species group up to the oracle's answer; line 106
\* rebinds ncbi_species to the species of the group
AniBatch ==
    /\ pc = "ani_species"
    /\ idx <= Len(ncbi_sp_gids)
    /\ LET species == ncbi_sp_gids[idx].species
           species_gids == ncbi_sp_gids[idx].gids
       IN  IF species \notin DOMAIN ncbi_type_anchored_species
           THEN \* continue
                /\ ncbi_species' = species
                /\ idx' = idx + 1
                /\ UNCHANGED <<pc, error, type_rid, gids_to_check, ani_af,
                               fastani_calls>>
           ELSE LET rid == ncbi_type_anchored_species[species]
                IN  IF \E gid \in Range(species_gids) : gid \notin DOMAIN gid_to_rid
                    THEN \* gid_to_rid[gid] raises part-way through the group
                         /\ Raise(KeyErrorGidToRid)
                         /\ ncbi_species' = species
                         /\ type_rid' = rid
                         /\ gids_to_check' =
                                GidsToCheckBeforeKeyError(gid_to_rid, rid, species_gids)
                         /\ UNCHANGED <<idx, ani_af, fastani_calls>>
                    ELSE LET to_check == GidsToCheck(gid_to_rid, rid, species_gids)
                         IN  /\ ncbi_species' = species
                             /\ type_rid' = rid
                             /\ gids_to_check' = to_check
                             /\ IF Len(to_check) > 0
                                THEN /\ ani_af' \in FastANIResults(GidPairs(rid, to_check))
                                     /\ fastani_calls' = Append(fastani_calls,
                                            [species |-> species,
                                             gid_pairs |-> GidPairs(rid, to_check)])
                                     /\ pc' = "ani_classify"
                                     /\ UNCHANGED <<idx, error>>
                                ELSE /\ idx' = idx + 1
                                     /\ UNCHANGED <<pc, error, ani_af, fastani_calls>>
    /\ UNCHANGED <<inputs, other_tools, mode, method, gid_to_rid, ncbi_sp_gids,
                   ncbi_type_anchored_species, todo, misclassified_gids,
                   ani_report, cluster_report, ani_returned, cluster_returned>>

\* lines 139-149: the genomes of the batch are classified
AniClassify ==
    /\ pc = "ani_classify"
    /\ LET done == AniClassifyFrom(1, gids_to_check, ani_af, type_rid,
                        ncbi_sp_gids[idx].species, gid_to_rid,
                        [raised |-> FALSE,
                         misclassified |-> misclassified_gids,
                         rows |-> ani_report.rows])
       IN  /\ misclassified_gids' = done.misclassified
           /\ ani_report' = [ani_report EXCEPT !.rows = done.rows]
           /\ IF done.raised
              THEN Raise(LookupErrorAniAf) /\ UNCHANGED idx
              ELSE pc' = "ani_species" /\ idx' = idx + 1 /\ UNCHANGED error
    /\ UNCHANGED <<inputs, other_tools, mode, method, gid_to_rid, ncbi_sp_gids, ncbi_species,
                   ncbi_type_anchored_species, todo, type_rid, gids_to_check,
                   ani_af, cluster_report, ani_returned, cluster_returned,
                   fastani_calls>>

\* lines 151-159: the report is closed and the flagged genomes returned
AniReturn ==
    /\ pc = "ani_species"
    /\ idx > Len(ncbi_sp_gids)
    /\ ani_report' = [ani_report EXCEPT !.closed = TRUE]
    /\ ani_returned' = [returned |-> TRUE, gids |-> misclassified_gids]
    /\ pc' = IF mode = "run" THEN "ani_returned" ELSE "done"
    /\ LocalsDropped
    /\ UNCHANGED <<inputs, other_tools, mode, error, cluster_report, cluster_returned,
                   fastani_calls>>

----------------------------------------------------------------------------
(* identify_misclassified_genomes_cluster *)

\* lines 164-182: index, species groups, empty anchor map
ClusterEnter ==
    /\ gid_to_rid' = GidToRid(cur_clusters)
    /\ ncbi_sp_gids' = NcbiSpGids(cur_genomes)
    /\ ncbi_species' = LastNcbiSpecies(cur_genomes)
    /\ ncbi_type_anchored_species' = EmptyMap
    /\ todo' = DOMAIN cur_clusters
    /\ pc' = "cluster_anchor"
    /\ method' = "cluster"
    /\ UNCHANGED <<inputs, other_tools, error, idx, type_rid, gids_to_check, ani_af,
                   misclassified_gids, ani_report, cluster_report,
                   ani_returned, cluster_returned, fastani_calls>>

\* run(), lines 272-273
RunCluster ==
    /\ pc = "ani_returned"
    /\ UNCHANGED mode
    /\ ClusterEnter

\* the cluster method called on its own
CallCluster ==
    /\ pc = "idle"
    /\ mode' = "cluster"
    /\ ClusterEnter

\* lines 183-195, one cluster
ClusterAnchor ==
    /\ pc = "cluster_anchor"
    /\ \E rid \in todo :
        LET names == ClusterAnchorNames(cur_genomes, ncbi_species, cur_clusters[rid])
        IN  IF ClusterAnchorConflict(ncbi_type_anchored_species, rid, names)
            THEN \* sys.exit(-1) at the first conflicting member; the members
                 \* the set yielded before it have been anchored (line 195)
                 /\ pc' = "exit"
                 /\ error' = "SystemExit"
                 /\ \E earlier \in SUBSET (names \
                        ClusterAnchorConflicting(ncbi_type_anchored_species, rid, names)) :
                        ncbi_type_anchored_species' =
                            ClusterAnchorCluster(ncbi_type_anchored_species, rid, earlier)
                 /\ UNCHANGED todo
            ELSE /\ ncbi_type_anchored_species' =
                        ClusterAnchorCluster(ncbi_type_anchored_species, rid, names)
                 /\ todo' = todo \ {rid}
                 /\ UNCHANGED <<pc, error>>
    /\ UNCHANGED <<inputs, other_tools, mode, method, gid_to_rid, ncbi_sp_gids, ncbi_species, idx,
                   type_rid, gids_to_check, ani_af, misclassified_gids,
                   ani_report, cluster_report, ani_returned, cluster_returned,
                   fastani_calls>>

\* lines 196-203: the report is opened and its header written
ClusterOpenReport ==
    /\ pc = "cluster_anchor"
    /\ todo = {}
    /\ cluster_report' = [opened |-> TRUE, header |-> TRUE, rows |-> <<>>,
                          closed |-> FALSE]
    /\ misclassified_gids' = {}
    /\ idx' = 1
    /\ pc' = "cluster_species"
    /\ UNCHANGED <<inputs, other_tools, mode, method, error, gid_to_rid, ncbi_sp_gids,
                   ncbi_species, ncbi_type_anchored_species, todo, type_rid,
                   gids_to_check, ani_af, ani_report, ani_returned,
                   cluster_returned, fastani_calls>>

\* lines 204-219: one species group; line 204 rebinds ncbi_species to the
\* species of the group
ClusterSpecies ==
    /\ pc = "cluster_species"
    /\ idx <= Len(ncbi_sp_gids)
    /\ LET species == ncbi_sp_gids[idx].species
           species_gids == ncbi_sp_gids[idx].gids
       IN  IF species \notin DOMAIN ncbi_type_anchored_species
           THEN \* continue
                /\ ncbi_species' = species
                /\ idx' = idx + 1
                /\ UNCHANGED <<pc, error, type_rid, misclassified_gids,
                               cluster_report>>
           ELSE LET rid == ncbi_type_anchored_species[species]
                    done == ClusterClassifyFrom(1, species_gids, rid, species,
                                gid_to_rid,
                                [raised |-> FALSE,
                                 misclassified |-> misclassified_gids,
                                 rows |-> cluster_report.rows])
                IN  /\ ncbi_species' = species
                    /\ type_rid' = rid
                    /\ misclassified_gids' = done.misclassified
                    /\ cluster_report' = [cluster_report EXCEPT !.rows = done.rows]
                    /\ IF done.raised
                       THEN Raise(KeyErrorGidToRid) /\ UNCHANGED idx
                       ELSE idx' = idx + 1 /\ UNCHANGED <<pc, error>>
    /\ UNCHANGED <<inputs, other_tools, mode, method, gid_to_rid, ncbi_sp_gids,
                   ncbi_type_anchored_species, todo, gids_to_check, ani_af,
                   ani_report, ani_returned, cluster_returned, fastani_calls>>

\* lines 221-229: the report is closed and the flagged genomes returned
ClusterReturn ==
    /\ pc = "cluster_species"
    /\ idx > Len(ncbi_sp_gids)
    /\ cluster_report' = [cluster_report EXCEPT !.closed = TRUE]
    /\ cluster_returned' = [returned |-> TRUE, gids |-> misclassified_gids]
    /\ pc' = "done"
    /\ LocalsDropped
    /\ UNCHANGED <<inputs, other_tools, mode, error, ani_report, ani_returned,
                   fastani_calls>>

Next ==
    \/ Run
    \/ AniAnchor
    \/ AniOpenReport
    \/ AniBatch
    \/ AniClassify
    \/ AniReturn
    \/ RunCluster
    \/ CallCluster
    \/ ClusterAnchor
    \/ ClusterOpenReport
    \/ ClusterSpecies
    \/ ClusterReturn

\* run(), and the cluster method called on its own
Spec == Init /\ [][Next]_vars

NextAni ==
    \/ CallAni
    \/ AniAnchor
    \/ AniOpenReport
    \/ AniBatch
    \/ AniClassify
    \/ AniReturn

\* the threshold method called on its own
SpecAni == Init /\ [][NextAni]_vars

----------------------------------------------------------------------------
(* PMC_CheckTypeStrains._test_same_epithet *)

\* bound: length of the generated epithets
MaxEpithetLen == 5

EpithetLetters == {"a", "b"}

RECURSIVE Words(_)
Words(n) ==
    IF n = 0 THEN {""}
    ELSE LET shorter == Words(n - 1)
         IN  shorter \cup { w \o c : w \in shorter, c \in EpithetLetters }

\* the epithets tested: every word over two letters, and the named examples
Epithets ==
    Words(MaxEpithetLen) \cup {"bacillus", "coli", "colii", "subtilis", "bar", "barii"}

Min(a, b) == IF a <= b THEN a ELSE b

RECURSIVE CommonPrefixFrom(_, _, _)
CommonPrefixFrom(s1, s2, k) ==
    IF k < Len(s1) /\ k < Len(s2) /\ SubSeq(s1, k + 1, k + 1) = SubSeq(s2, k + 1, k + 1)
    THEN CommonPrefixFrom(s1, s2, k + 1)
    ELSE SubSeq(s1, 1, k)

\* taxon_utils.longest_common_prefix
longest_common_prefix(s1, s2) == CommonPrefixFrom(s1, s2, 0)

test_same_epithet_longer(epithet1_, epithet2_) ==
    IF epithet1_ = epithet2_ THEN TRUE
    ELSE LET lcp == longest_common_prefix(epithet1_, epithet2_)
         IN  Len(lcp) > Min(Len(epithet1_), Len(epithet2_)) - 3

\* lines 42-54
test_same_epithet(epithet1_, epithet2_) ==
    IF epithet1_ = epithet2_ THEN TRUE
    ELSE LET lcp == longest_common_prefix(epithet1_, epithet2_)
         IN  Len(lcp) >= Min(Len(epithet1_), Len(epithet2_)) - 3

\* one call of _test_same_epithet
TestSameEpithet ==
    /\ ~same_epithet.returned
    /\ same_epithet' = [returned |-> TRUE,
                        value |-> test_same_epithet(epithet1, epithet2)]
    /\ UNCHANGED <<epithet1, epithet2, detector_vars, pmc_vars, new_genomes_vars>>

InitEpithet ==
    /\ epithet1 \in Epithets
    /\ epithet2 \in Epithets
    /\ same_epithet = NotTested
    /\ DetectorIdle
    /\ PmcIdle
    /\ NewGenomesIdle

NextEpithet == TestSameEpithet

\* _test_same_epithet called on a pair of epithets
SpecEpithet == InitEpithet /\ [][NextEpithet]_vars

----------------------------------------------------------------------------
(* PMC_CheckTypeStrains.run *)

\* bound: genomes besides the two that run() looks up by name
NumCurated == 1

\* the genomes of lines 91-92; genome G00000000n is written n
G003992675 == 3992675

G003149745 == 3149745

PmcGids == {G003992675, G003149745} \cup (1..NumCurated)

\* species of the manually curated taxonomy
GtdbSpecies == { <<"s__Foo", "coli">>, <<"s__Foo", "barii">> }

\* NCBI species of a genome: unassigned, or a binomial
PmcNcbiSpecies == { NoSpecies, <<"s__Foo", "colii">>, <<"s__Foo", "barii">> }

PmcGenomeRecords ==
    [is_gtdb_type_strain : BOOLEAN,
     ncbi_species : PmcNcbiSpecies,
     excluded_from_refseq_note : {""}]

\* the maps from any subset of the genomes to the values
PartialMaps(keys, values) == UNION { [d -> values] : d \in SUBSET keys }

\* lines 91-92: both genomes are looked up in cur_genomes
CheckedGenomesLoaded(genomes) ==
    G003992675 \in DOMAIN genomes /\ G003149745 \in DOMAIN genomes

\* lines 108: the epithets of the two species differ beyond the suffix rule
IsIncongruent(gtdb_sp, ncbi_sp) ==
    ~test_same_epithet(specific_epithet(gtdb_sp), specific_epithet(ncbi_sp))

\* lines 75-97: the inputs are loaded, the two genomes looked up, the report
\* opened and its header written
PmcOpenReport ==
    /\ pmc_pc = "idle"
    /\ IF CheckedGenomesLoaded(pmc_genomes)
       THEN /\ fout' = [opened |-> TRUE, header |-> TRUE, rows |-> <<>>,
                        closed |-> FALSE]
            /\ num_incongruent' = 0
            /\ pmc_todo' = DOMAIN mc_taxonomy
            /\ pmc_pc' = "taxa"
       ELSE \* cur_genomes[...] raises
            /\ pmc_pc' = "crashed"
            /\ UNCHANGED <<fout, num_incongruent, pmc_todo>>
    /\ UNCHANGED <<mc_taxonomy, pmc_genomes, pmc_logged, detector_vars,
                   epithet_vars, new_genomes_vars>>

\* lines 99-114: one item of mc_taxonomy
PmcTaxon ==
    /\ pmc_pc = "taxa"
    /\ \E rid \in pmc_todo :
        /\ pmc_todo' = pmc_todo \ {rid}
        /\ IF rid \notin DOMAIN pmc_genomes
           THEN \* cur_genomes[rid] raises
                /\ pmc_pc' = "crashed"
                /\ UNCHANGED <<fout, num_incongruent>>
           ELSE LET gtdb_sp == mc_taxonomy[rid]
                    ncbi_sp == pmc_genomes[rid].ncbi_species
                IN  IF /\ pmc_genomes[rid].is_gtdb_type_strain
                       /\ ncbi_sp # NoSpecies
                       /\ IsIncongruent(gtdb_sp, ncbi_sp)
                    THEN /\ num_incongruent' = num_incongruent + 1
                         /\ fout' = [fout EXCEPT !.rows = Append(@,
                                <<rid, gtdb_sp, ncbi_sp,
                                  pmc_genomes[rid].excluded_from_refseq_note>>)]
                         /\ UNCHANGED pmc_pc
                    ELSE UNCHANGED <<pmc_pc, fout, num_incongruent>>
    /\ UNCHANGED <<mc_taxonomy, pmc_genomes, pmc_logged, detector_vars,
                   epithet_vars, new_genomes_vars>>

\* lines 116-117: the count is logged and the report closed
PmcCloseReport ==
    /\ pmc_pc = "taxa"
    /\ pmc_todo = {}
    /\ pmc_logged' = [logged |-> TRUE, count |-> num_incongruent]
    /\ fout' = [fout EXCEPT !.closed = TRUE]
    /\ pmc_pc' = "done"
    /\ UNCHANGED <<mc_taxonomy, pmc_genomes, pmc_todo, num_incongruent,
                   detector_vars, epithet_vars, new_genomes_vars>>

InitPmc ==
    /\ mc_taxonomy \in PartialMaps(PmcGids, GtdbSpecies)
    /\ pmc_genomes \in PartialMaps(PmcGids, PmcGenomeRecords)
    /\ pmc_pc = "idle"
    /\ pmc_todo = {}
    /\ num_incongruent = 0
    /\ fout = NoFile
    /\ pmc_logged = NotLogged
    /\ DetectorIdle
    /\ EpithetIdle
    /\ NewGenomesIdle

NextPmc ==
    \/ PmcOpenReport
    \/ PmcTaxon
    \/ PmcCloseReport

\* PMC_CheckTypeStrains.run on a curated taxonomy and a genome set
SpecPmc == InitPmc /\ [][NextPmc]_vars

----------------------------------------------------------------------------
(* NewGenomes: same_genome_accn, and run up to the end of the classification
   (line 130); the rest of run only reads new_gids and updated_gids *)

\* bound: assemblies known to NCBI, numbered from 1
NumAssemblies == 1

AssemblyDigits == <<"1", "2", "3", "4">>

GenBankAccn(n) == "GCA_" \o AssemblyDigits[n] \o ".1"

\* an assembly has up to two RefSeq versions
RefSeqAccns(n) ==
    { "GCF_" \o AssemblyDigits[n] \o ".1", "GCF_" \o AssemblyDigits[n] \o ".2" }

\* the first column of a GTDB metadata file: prefixed NCBI accessions of
\* the assemblies, and a user genome
MetadataAccns ==
    { "GB_" \o GenBankAccn(n) : n \in 1..NumAssemblies }
    \cup UNION { { "RS_" \o accn : accn \in RefSeqAccns(n) } : n \in 1..NumAssemblies }
    \cup { "UBA1" }

startswith(str, prefix) ==
    Len(str) >= Len(prefix) /\ SubSeq(str, 1, Len(prefix)) = prefix

\* the positions at which old occurs in str
Occurrences(str, old) ==
    { k \in 1..(Len(str) - Len(old) + 1) : SubSeq(str, k, k + Len(old) - 1) = old }

\* str.replace(old, new): every occurrence, left to right
RECURSIVE replace(_, _, _)
replace(str, old, new) ==
    LET found == Occurrences(str, old)
    IN  IF found = {} THEN str
        ELSE LET first == CHOOSE k \in found : \A j \in found : k <= j
             IN  SubSeq(str, 1, first - 1) \o new
                 \o replace(SubSeq(str, first + Len(old), Len(str)), old, new)

\* str[0:str.find('.')] when str has a dot, else str
BeforeDot(str) ==
    LET dots == Occurrences(str, ".")
    IN  IF dots = {} THEN str
        ELSE SubSeq(str, 1, (CHOOSE k \in dots : \A j \in dots : k <= j) - 1)

\* common.canonical_gid: a user genome keeps its ID; an NCBI accession
\* loses its prefix and version, and GCA_ and GCF_ both become G
canonical_gid(gid) ==
    IF startswith(gid, "U") THEN gid
    ELSE BeforeDot(replace(replace(replace(replace(gid, "RS_", ""), "GB_", ""),
                                   "GCA_", "G"), "GCF_", "G"))

CanonicalGids == { canonical_gid(accn) : accn \in MetadataAccns }

\* lines 67-89: a dict canonical ID -> accession read from a metadata file
AccnMaps ==
    { m \in PartialMaps(CanonicalGids, MetadataAccns) :
        \A gid \in DOMAIN m : canonical_gid(m[gid]) = gid }

\* bound: lines of the assembly summary marked identical
MaxIdenticalLines == 2

\* a (GenBank, RefSeq) pair a line of the assembly summary can mark
\* identical: an assembly and one of its RefSeq versions
IdenticalPairs ==
    UNION { { <<GenBankAccn(n), rs>> : rs \in RefSeqAccns(n) } :
              n \in 1..NumAssemblies }

\* the lines of the assembly summary with paired_asm_comp = 'identical',
\* in file order
AssemblySummaries ==
    UNION { [1..len -> IdenticalPairs] : len \in 0..MaxIdenticalLines }

\* d[key] = value on a dict
Put(d, key, value) ==
    [k \in (DOMAIN d) \cup {key} |-> IF k = key THEN value ELSE d[k]]

\* lines 93-112: both directions of every identical line, a later line
\* overwriting an earlier one
RECURSIVE IdenticalAccns(_)
IdenticalAccns(lines) ==
    IF lines = <<>> THEN [accn \in {} |-> ""]
    ELSE LET line == lines[Len(lines)]
             gb_accn == line[1]
             rs_accn == line[2]
         IN  Put(Put(IdenticalAccns(SubSeq(lines, 1, Len(lines) - 1)),
                     gb_accn, rs_accn), rs_accn, gb_accn)

same_genome_accn_refseq_only(accn1_, accn2_, identical) ==
    IF accn1_ = accn2_ THEN [exit |-> FALSE, same |-> TRUE]
    ELSE IF canonical_gid(accn1_) # canonical_gid(accn2_)
    THEN [exit |-> TRUE, same |-> FALSE]
    ELSE LET accn1 == replace(accn1_, "RS_", "")
             accn2 == replace(accn2_, "RS_", "")
         IN  [exit |-> FALSE,
              same |-> accn1 \in DOMAIN identical /\ identical[accn1] = accn2]

\* lines 36-56; exit is sys.exit(-1)
same_genome_accn(accn1_, accn2_, identical) ==
    IF accn1_ = accn2_ THEN [exit |-> FALSE, same |-> TRUE]
    ELSE IF canonical_gid(accn1_) # canonical_gid(accn2_)
    THEN [exit |-> TRUE, same |-> FALSE]
    ELSE LET accn1 == replace(replace(accn1_, "RS_", ""), "GB_", "")
             accn2 == replace(replace(accn2_, "RS_", ""), "GB_", "")
         IN  [exit |-> FALSE,
              same |-> accn1 \in DOMAIN identical /\ identical[accn1] = accn2]

\* lines 114-117
NgStart ==
    /\ ng_pc = "idle"
    /\ new_gids' = {}
    /\ updated_gids' = {}
    /\ ng_todo' = DOMAIN cur_accns
    /\ ng_pc' = "classify"
    /\ UNCHANGED <<prev_accns, cur_accns, identical_accns, detector_vars,
                   epithet_vars, pmc_vars>>

\* lines 118-128: one key of cur_accns
NgClassify ==
    /\ ng_pc = "classify"
    /\ \E cur_gid \in ng_todo :
        /\ ng_todo' = ng_todo \ {cur_gid}
        /\ IF startswith(cur_gid, "U")
           THEN \* continue
                UNCHANGED <<new_gids, updated_gids, ng_pc>>
           ELSE IF cur_gid \in DOMAIN prev_accns
           THEN LET answer == same_genome_accn(cur_accns[cur_gid],
                                  prev_accns[cur_gid], identical_accns)
                IN  /\ ng_pc' = IF answer.exit THEN "exit" ELSE ng_pc
                    /\ updated_gids' = IF ~answer.exit /\ ~answer.same
                                       THEN updated_gids \cup {cur_gid}
                                       ELSE updated_gids
                    /\ UNCHANGED new_gids
           ELSE /\ new_gids' = new_gids \cup {cur_gid}
                /\ UNCHANGED <<updated_gids, ng_pc>>
    /\ UNCHANGED <<prev_accns, cur_accns, identical_accns, detector_vars,
                   epithet_vars, pmc_vars>>

\* line 130: every key has been classified
NgClassified ==
    /\ ng_pc = "classify"
    /\ ng_todo = {}
    /\ ng_pc' = "classified"
    /\ UNCHANGED <<prev_accns, cur_accns, identical_accns, new_gids,
                   updated_gids, ng_todo, detector_vars, epithet_vars, pmc_vars>>

InitNewGenomes ==
    /\ prev_accns \in AccnMaps
    /\ cur_accns \in AccnMaps
    /\ identical_accns \in { IdenticalAccns(lines) : lines \in AssemblySummaries }
    /\ new_gids = {}
    /\ updated_gids = {}
    /\ ng_pc = "idle"
    /\ ng_todo = {}
    /\ DetectorIdle
    /\ EpithetIdle
    /\ PmcIdle

NextNewGenomes ==
    \/ NgStart
    \/ NgClassify
    \/ NgClassified

\* NewGenomes.run on two releases and an assembly summary
SpecNewGenomes == InitNewGenomes /\ [][NextNewGenomes]_vars

----------------------------------------------------------------------------
(* Vocabulary of the properties *)

Terminal == pc \in {"done", "crashed", "exit"}

SpeciesOf(gid) == cur_genomes[gid].ncbi_species

\* the reference species names carried by the type-strain-evidence genomes
\* listed as members of a cluster
ListedTypeSpecies(rid) ==
    { SpeciesOf(cid) : cid \in
        { c \in cur_clusters[rid] :
            is_effective_type_strain(cur_genomes, c) /\ SpeciesOf(c) # NoSpecies } }

\* two different clusters hold type-strain-evidence genomes with one name
AnchorConflictInput ==
    \E r1 \in DOMAIN cur_clusters, r2 \in DOMAIN cur_clusters :
        r1 # r2 /\ ListedTypeSpecies(r1) \cap ListedTypeSpecies(r2) # {}

\* the member sets leave the representative out
RepsNotListed == \A rid \in DOMAIN cur_clusters : rid \notin cur_clusters[rid]

ClusteredGids == (DOMAIN cur_clusters) \cup UNION { cur_clusters[rid] : rid \in DOMAIN cur_clusters }

\* the representative of the cluster a genome belongs to
RepOf(gid) ==
    IF gid \in DOMAIN cur_clusters THEN gid
    ELSE CHOOSE rid \in DOMAIN cur_clusters : gid \in cur_clusters[rid]

\* the identities the current batch result holds for the anchor and a
\* genome, under either ordering
Obtained(gid) ==
    { ani_af[p][1] : p \in {<<type_rid, gid>>, <<gid, type_rid>>} \cap DOMAIN ani_af }

\* every genome flagged by the threshold method has its species anchored at
\* a representative other than its own, and its report row, with an identity
\* below the threshold
AniFlaggedAreMismatches ==
    /\ \A gid \in misclassified_gids :
          /\ SpeciesOf(gid) \in DOMAIN ncbi_type_anchored_species
          /\ gid \in DOMAIN gid_to_rid
          /\ gid_to_rid[gid] # ncbi_type_anchored_species[SpeciesOf(gid)]
    /\ { row[1] : row \in Range(ani_report.rows) } = misclassified_gids
    /\ \A row \in Range(ani_report.rows) : row[5] < ani_ncbi_erroneous

-----
(* Properties *)

\* C1: in a full run on an input where two different clusters hold
\* type-strain-evidence genomes with the same reference species name, the run
\* never completes normally, and at the moment it aborts on the conflict
\* neither report file has been opened.
C1_AbortBeforeAnyReport ==
    (mode = "run" /\ AnchorConflictInput) =>
        /\ pc # "done"
        /\ (pc = "exit" => ~ani_report.opened /\ ~cluster_report.opened)

\* C2: an entry of the species anchor map is never replaced by a different
\* representative, in either resolver.
C2_AnchorNeverOverwritten ==
    [][\A species \in (DOMAIN ncbi_type_anchored_species)
                        \cap (DOMAIN ncbi_type_anchored_species') :
            ncbi_type_anchored_species'[species] = ncbi_type_anchored_species[species]]_vars

\* C3: when the member sets leave the representative out, the index built by
\* the detector holds every genome of the clustering, maps each member to
\* the representative of its cluster and each representative to itself.
C3_ClusterIndexTotal ==
    (method # "none" /\ RepsNotListed) =>
        /\ DOMAIN gid_to_rid = ClusteredGids
        /\ \A rid \in DOMAIN cur_clusters :
              /\ rid \in DOMAIN gid_to_rid /\ gid_to_rid[rid] = rid
              /\ \A cid \in cur_clusters[rid] :
                    cid \in DOMAIN gid_to_rid /\ gid_to_rid[cid] = rid

\* the genomes Method 1 is to return: those with a candidate name anchored
\* at a cluster other than their own
ExpectedClusterMisclassified ==
    { gid \in Gids :
        /\ HasCandidateName(SpeciesOf(gid))
        /\ \E rid \in DOMAIN cur_clusters :
              SpeciesOf(gid) \in ListedTypeSpecies(rid) /\ RepOf(gid) # rid }

\* C4: on a conflict-free input the cluster method returns exactly the
\* genomes whose candidate name is anchored at a cluster other than their own.
C4_ClusterMethodExact ==
    (mode = "cluster" /\ ~AnchorConflictInput /\ Terminal) =>
        /\ cluster_returned.returned
        /\ cluster_returned.gids = ExpectedClusterMisclassified

\* C5: when both methods complete on the same input, every genome returned by
\* the threshold method is returned by the cluster method.
C5_ClusterSupersetOfAni ==
    (mode = "run" /\ pc = "done") => ani_returned.gids \subseteq cluster_returned.gids

\* C6: a species name with a forbidden epithet is never a key of the anchor
\* map, and a genome carrying such a name is never flagged, in both methods.
C6_ForbiddenNeverAnchoredNorFlagged ==
    /\ \A species \in DOMAIN ncbi_type_anchored_species :
          specific_epithet(species) \notin forbidden_names
    /\ \A gid \in misclassified_gids \cup ani_returned.gids \cup cluster_returned.gids :
          specific_epithet(SpeciesOf(gid)) \notin forbidden_names

\* C7: the threshold method flags a genome only if its species is anchored at
\* a representative other than its own and the identity the oracle gave for
\* the pair is strictly below the threshold; a pair with identity at or above
\* the threshold is neither flagged nor written to the report.
C7_AniFlagsOnlyBelowThreshold ==
    [][/\ method' = "ani" => AniFlaggedAreMismatches'
       /\ ani_returned'.gids \subseteq ani_returned.gids \cup misclassified_gids
       /\ pc = "ani_classify" =>
            \A gid \in Range(gids_to_check) :
                /\ gid \in misclassified_gids' =>
                      /\ Obtained(gid) # {}
                      /\ \A ani \in Obtained(gid) : ani < ani_ncbi_erroneous
                /\ (\E ani \in Obtained(gid) : ani >= ani_ncbi_erroneous) =>
                      /\ gid \notin misclassified_gids'
                      /\ \A row \in Range(ani_report'.rows) : row[1] # gid]_vars

\* C7 witness: a batch has been classified, one genome flagged and another,
\* whose identity is exactly the threshold, left out
C7_Witness ==
    /\ mode = "ani" /\ pc = "ani_species"
    /\ \E g \in Range(gids_to_check), h \in Range(gids_to_check) :
          /\ g \in misclassified_gids
          /\ h \notin misclassified_gids
          /\ Obtained(h) = {ani_ncbi_erroneous}

\* C8: a candidate mismatch whose pair the oracle omitted in both orderings
\* is not flagged, gets no report row, and the run goes on to the next
\* species.
C8_UnresolvedSkipped ==
    [][pc = "ani_classify" =>
        \A gid \in Range(gids_to_check) :
            Obtained(gid) = {} =>
                /\ pc' = "ani_species"
                /\ gid \notin misclassified_gids'
                /\ \A row \in Range(ani_report'.rows) : row[1] # gid]_vars

\* C9: a genome of an anchored candidate group that is absent from the
\* cluster index does not crash the detector.
C9_UnclusteredSkipped ==
    (\E k \in 1..Len(ncbi_sp_gids) :
        /\ ncbi_sp_gids[k].species \in DOMAIN ncbi_type_anchored_species
        /\ \E gid \in Range(ncbi_sp_gids[k].gids) : gid \notin DOMAIN gid_to_rid)
    => error # KeyErrorGidToRid

\* the genomes labelled with a species that the cluster index places under
\* a representative other than rid
CandidateMismatches(species, rid) ==
    { gid \in Gids : /\ SpeciesOf(gid) = species
                     /\ gid \in DOMAIN gid_to_rid
                     /\ gid_to_rid[gid] # rid }

\* the species the oracle has been invoked for
BatchSpecies == { fastani_calls[k].species : k \in 1..Len(fastani_calls) }

\* C13: the cluster method never invokes the oracle; the threshold method
\* invokes it at most once per species, only for an anchored species with
\* a candidate mismatch, with exactly the pairs (R, G) and (G, R) of each
\* candidate mismatch G of the species anchored at R, before any genome of
\* the species is classified; and it classifies only genomes of the batch
\* it last issued.
C13_SelectiveBatchedOracle ==
    [][/\ method = "cluster" => fastani_calls' = fastani_calls
       /\ fastani_calls' # fastani_calls =>
            LET call == fastani_calls'[Len(fastani_calls')]
            IN  /\ method = "ani"
                /\ fastani_calls' = Append(fastani_calls, call)
                /\ call.species \notin BatchSpecies
                /\ call.species \in DOMAIN ncbi_type_anchored_species
                /\ LET rid == ncbi_type_anchored_species[call.species]
                       candidates == CandidateMismatches(call.species, rid)
                   IN  /\ candidates # {}
                       /\ Range(call.gid_pairs) =
                             UNION { {<<rid, gid>>, <<gid, rid>>} : gid \in candidates }
                       /\ Len(call.gid_pairs) = 2 * Cardinality(candidates)
                /\ \A gid \in Gids :
                      SpeciesOf(gid) = call.species =>
                          /\ gid \notin misclassified_gids'
                          /\ \A row \in Range(ani_report'.rows) : row[1] # gid
       /\ method = "ani" =>
            \A gid \in misclassified_gids' \ misclassified_gids :
                /\ fastani_calls' = fastani_calls
                /\ fastani_calls # <<>>
                /\ \E p \in Range(fastani_calls[Len(fastani_calls)].gid_pairs) :
                      p[2] = gid]_vars

\* C13 witness: run() has completed after one oracle batch of two candidate
\* mismatches, one of which was flagged
C13_Witness ==
    /\ mode = "run" /\ pc = "done"
    /\ Len(fastani_calls) = 1
    /\ Len(fastani_calls[1].gid_pairs) = 4
    /\ ani_returned.gids # {}

\* C14: the outcome of a detector does not depend on the order in which
\* the clusters and the genomes are enumerated: in the threshold method,
\* visiting any two clusters in either order leaves the same anchor map;
\* in the cluster method, the names the members of a cluster anchor are the
\* same whichever genome was enumerated last, so that they depend only on
\* each member's own name and type-strain flag.
C14_OrderIndependent ==
    /\ (method = "ani" /\ pc = "ani_anchor") =>
          \A r1, r2 \in DOMAIN cur_clusters :
              AniAnchorCluster(cur_genomes,
                  AniAnchorCluster(cur_genomes, ncbi_type_anchored_species, r1), r2)
              = AniAnchorCluster(cur_genomes,
                  AniAnchorCluster(cur_genomes, ncbi_type_anchored_species, r2), r1)
    /\ (method = "cluster" /\ pc = "cluster_anchor") =>
          \A rid \in DOMAIN cur_clusters : \A last \in Gids :
              ClusterAnchorNames(cur_genomes, SpeciesOf(last), cur_clusters[rid])
              = ClusterAnchorNames(cur_genomes, ncbi_species, cur_clusters[rid])

----------------------------------------------------------------------------
(* Claims about the sibling tools *)

\* a common prefix of the two epithets of length k
CommonPrefixOfLen(k) == SubSeq(epithet1, 1, k) = SubSeq(epithet2, 1, k)

ShorterLen == Min(Len(epithet1), Len(epithet2))

\* C12: _test_same_epithet returns true exactly when the epithets are equal
\* or share a prefix of at least min(len) - 3 characters; in particular it
\* is true of an epithet and itself, of coli/colii and of bar/barii, and
\* false of coli/subtilis.
C12_EpithetRule ==
    same_epithet.returned =>
        /\ same_epithet.value <=>
              \/ epithet1 = epithet2
              \/ \E k \in 0..ShorterLen : k >= ShorterLen - 3 /\ CommonPrefixOfLen(k)
        /\ epithet1 = epithet2 => same_epithet.value
        /\ {epithet1, epithet2} = {"coli", "colii"} => same_epithet.value
        /\ {epithet1, epithet2} = {"bar", "barii"} => same_epithet.value
        /\ {epithet1, epithet2} = {"coli", "subtilis"} => ~same_epithet.value

\* C12 witness: two different epithets of four or more letters found
\* equivalent on a common prefix of exactly min(len) - 3 characters
C12_Witness ==
    /\ same_epithet.returned /\ same_epithet.value
    /\ epithet1 # epithet2
    /\ ShorterLen >= 4
    /\ CommonPrefixOfLen(ShorterLen - 3)
    /\ ~CommonPrefixOfLen(ShorterLen - 2)

\* the genomes of the curated taxonomy with type-strain evidence, an NCBI
\* species and curated and NCBI epithets that are not equivalent
PmcIncongruent ==
    { rid \in DOMAIN mc_taxonomy :
        /\ rid \in DOMAIN pmc_genomes
        /\ pmc_genomes[rid].is_gtdb_type_strain
        /\ pmc_genomes[rid].ncbi_species # NoSpecies
        /\ ~test_same_epithet(specific_epithet(mc_taxonomy[rid]),
                              specific_epithet(pmc_genomes[rid].ncbi_species)) }

PmcReported == { fout.rows[k][1] : k \in 1..Len(fout.rows) }

\* C11: when the incongruence checker ends, the genomes with a report row
\* are exactly the type-strain genomes of the curated taxonomy with an NCBI
\* species whose epithets are not equivalent, and the logged count is the
\* number of rows.
C11_RowsIffIncongruent ==
    pmc_pc \in {"done", "crashed"} =>
        /\ PmcReported = PmcIncongruent
        /\ pmc_logged.logged => pmc_logged.count = Len(fout.rows)

\* an accession without its 'RS_' or 'GB_' prefix
StripPrefix(accn) ==
    IF startswith(accn, "RS_") \/ startswith(accn, "GB_")
    THEN SubSeq(accn, 4, Len(accn))
    ELSE accn

\* the assembly summary records the two accessions as an identical pair
RecordedIdentical(accn1, accn2) ==
    \/ accn1 \in DOMAIN identical_accns /\ identical_accns[accn1] = accn2
    \/ accn2 \in DOMAIN identical_accns /\ identical_accns[accn2] = accn1

\* present in both releases under accessions that are neither equal nor an
\* identical GenBank/RefSeq pair
IsUpdated(gid) ==
    /\ gid \in DOMAIN prev_accns
    /\ cur_accns[gid] # prev_accns[gid]
    /\ ~RecordedIdentical(StripPrefix(cur_accns[gid]), StripPrefix(prev_accns[gid]))

\* the answer same_genome_accn gives with the two accessions swapped
SwappedSame(gid) ==
    same_genome_accn(prev_accns[gid], cur_accns[gid], identical_accns).same

\* NEW and UPDATED are disjoint and hold no user genome
DisjointWithoutUserGenomes ==
    /\ new_gids \cap updated_gids = {}
    /\ \A gid \in new_gids \cup updated_gids : ~startswith(gid, "U")

\* C15 as stated: NEW and UPDATED are disjoint and hold no ID starting with
\* 'U'; after classification every current ID is NEW exactly when absent
\* from the previous release and UPDATED exactly when present in both under
\* accessions neither equal nor an identical pair; swapping the accessions
\* given to same_genome_accn gives the same classification.
C15_Diffing ==
    /\ DisjointWithoutUserGenomes
    /\ ng_pc = "classified" =>
          \A gid \in DOMAIN cur_accns :
              /\ gid \in new_gids <=> gid \notin DOMAIN prev_accns
              /\ gid \in updated_gids <=> IsUpdated(gid)
              /\ gid \in DOMAIN prev_accns =>
                    (gid \in updated_gids <=> ~SwappedSame(gid))

\* every accession of the assembly summary is the pair of its pair
PairedOneToOne ==
    \A accn \in DOMAIN identical_accns :
        /\ identical_accns[accn] \in DOMAIN identical_accns
        /\ identical_accns[identical_accns[accn]] = accn

\* C15 amended: as C15, the two "exactly when" and the swap being stated
\* of the current IDs that do not start with 'U', and the UPDATED rule and
\* the swap of an assembly summary that pairs accessions one-to-one.
C15_DiffingOfNcbiGenomes ==
    /\ DisjointWithoutUserGenomes
    /\ ng_pc = "classified" =>
          \A gid \in { g \in DOMAIN cur_accns : ~startswith(g, "U") } :
              /\ gid \in new_gids <=> gid \notin DOMAIN prev_accns
              /\ PairedOneToOne =>
                    /\ gid \in updated_gids <=> IsUpdated(gid)
                    /\ gid \in DOMAIN prev_accns =>
                          (gid \in updated_gids <=> ~SwappedSame(gid))

\* C15 witness: after classification, under a one-to-one summary, a genome whose accession changed to
\* its identical GenBank/RefSeq pair is not UPDATED, and a user genome
\* absent from the previous release has been skipped
C15_Witness ==
    /\ ng_pc = "classified"
    /\ PairedOneToOne
    /\ \E gid \in (DOMAIN cur_accns) \cap (DOMAIN prev_accns) :
          /\ cur_accns[gid] # prev_accns[gid]
          /\ RecordedIdentical(StripPrefix(cur_accns[gid]), StripPrefix(prev_accns[gid]))
          /\ gid \notin updated_gids
    /\ \E gid \in (DOMAIN cur_accns) \ (DOMAIN prev_accns) :
          startswith(gid, "U") /\ gid \notin new_gids

====
